---- MODULE Spec2Model ----
(***************************************************************************)
(* Model of the payment-challenge, attestation, review and reputation      *)
(* layers of the quarry backend (quarry-backend/x402_protocol.py,          *)
(* services/sas_service.py and the handlers of routers/agent.py that drive *)
(* them; the review and reputation services are described below).         *)
(*                                                                         *)
(* Granularity.  The backend runs its handlers as coroutines of one event  *)
(* loop.  X402Protocol.verify_payment contains no suspension point: the    *)
(* ledger client is the blocking solana.rpc.api.Client, and the only       *)
(* awaits are on _verify_sol_payment/_verify_usdc_payment, coroutines that *)
(* themselves never suspend.  A call therefore runs from its first line to *)
(* its return without another coroutine in between; several calls are      *)
(* concurrent when they are scheduled (invoked) before the earlier ones    *)
(* have run.  The model keeps every invoked call in calls and runs each    *)
(* one as a single step, in any order.                                     *)
(*                                                                         *)
(* Numbers.  amount is a Python float; it is represented here by the       *)
(* integer number of half smallest-units (AmountDen = 2 per lamport or     *)
(* token unit), so int(amount * 10**decimals) is a truncating division by  *)
(* two and an amount below one smallest unit exists.  The float product    *)
(* expected * 0.95 is compared with an integer balance change; for         *)
(* magnitudes below 2^53 that comparison agrees with the exact one,        *)
(* change >= ceil(19 * expected / 20).                                     *)
(*                                                                         *)
(* Proxy.  x402_protocol_proxy.py holds a second implementation,           *)
(* X402ProtocolProxy, which no router imports: routers/agent.py works on   *)
(* the X402Protocol instance x402.  Its verify_payment makes the same      *)
(* not-found and expiry tests before it first suspends, and returns False  *)
(* for every failure of the remote call; it is not a separate part of the  *)
(* model.                                                                  *)
(*                                                                         *)
(* Attestations.  SASService.connect does not suspend, and between the     *)
(* awaits of create_attestation and verify_attestation no other coroutine  *)
(* changes what they read (the authority key is fixed once connected, the  *)
(* ledger only grows), so each call is one step.  Time is in seconds; an   *)
(* expires_at is the whole second create_attestation truncates it to.      *)
(*                                                                         *)
(* confirm_payment.  The handler of routers/agent.py tests the challenge   *)
(* id, awaits verify_payment, runs the stored query and returns its rows;  *)
(* it does not suspend before it has answered, and is one step.  Where a   *)
(* claim speaks of verify_payment alone, RunVerify is that call on its own.*)
(*                                                                         *)
(* IPFS.  services/ipfs_service.py keeps what upload_json is given; ipfs   *)
(* is the sequence of the documents uploaded, each upload a new document   *)
(* (the documents carry the time of their upload).                         *)
(*                                                                         *)
(* Reviews and reputation (services/review_service.py,                     *)
(* services/reputation_service.py, services/qa_service.py, database.py).   *)
(* ReviewService.create_review runs its two checks before its first await  *)
(* (the upload of the review text) and stores the row after its last one:  *)
(* it is two steps, CreateReviewBegin and CreateReviewFinish, and other    *)
(* handlers run in between.  The awaits between the upload and the review  *)
(* attestation are not told apart.  _update_dataset_reputation_with_review *)
(* awaits only get_dataset_reviews, which never suspends, so the insert    *)
(* and the recomputation are one step.  mark_review_helpful has no await.  *)
(* process_dataset_reputation writes the record in its last step from the  *)
(* report alone; the handler is one step, taken when it completes.         *)
(*                                                                         *)
(* Rounding.  Ratings and weights are kept in hundredths.  round() is      *)
(* applied by the code to a float: where the exact value lies halfway      *)
(* between two results the float may lie on either side, and the model     *)
(* allows both (Rounded).  Percentages of the QA report are whole numbers. *)
(*                                                                         *)
(* Usage receipts.  review_service.py and reputation_service.py call       *)
(* db.get_usage_receipt and db.create_usage_receipt; DuckDBManager in      *)
(* database.py defines neither, and no table holds the receipts.  They are *)
(* modelled as a store of (wallet, dataset, version) records with an       *)
(* exact-match look-up, get_usage_receipt and create_usage_receipt_record. *)
(***************************************************************************)
EXTENDS Integers, Sequences, FiniteSets, TLC

\* ----------------------------------------------------------------- bounds
MaxChallenges == 1
MaxCalls == 2
MaxProbes == 1
MaxTime == 301
MaxAttestations == 1
MaxSasTime == 604801
MaxReviewCalls == 2
MaxLedger == 4
MaxPasses == 1
MaxStoredReviews == 11

\* ------------------------------------------------------ program constants
\* "expires_at": int(time.time()) + 300
ExpiryWindow == 300
\* 10**decimals, in half smallest-units per smallest unit (see Numbers)
AmountDen == 2

USDC_MINT == "USDC"
OTHER_MINT == "OTHER"

NoValue == "None"

\* ------------------------------------------------------------- the ledger
\* get_associated_token_address(owner, mint): deterministic and injective
get_associated_token_address(owner, mint) == <<owner, mint>>

TokenBalance(idx, mint, owner, amount) ==
    [account_index |-> idx, mint |-> mint, owner |-> owner, amount |-> amount]

\* a confirmed native transfer of `moved` lamports from payer P to `dest`
SolTransfer(dest, moved, failed) ==
    [value |-> TRUE, meta |-> TRUE, err |-> failed,
     account_keys |-> <<"P", dest>>,
     pre_balances |-> <<1000000000, 7>>,
     post_balances |-> <<1000000000 - moved - 5, 7 + moved>>,
     pre_token_balances |-> <<>>, post_token_balances |-> <<>>]

\* a confirmed token transfer of `moved` units of `mint` from payer P's token
\* account to owner's; isNew: the destination account is created by the
\* transaction, so that it has no pre-balance entry
TokenTransfer(owner, mint, moved, isNew) ==
    [value |-> TRUE, meta |-> TRUE, err |-> FALSE,
     account_keys |-> <<"P", get_associated_token_address("P", mint),
                        get_associated_token_address(owner, mint)>>,
     pre_balances |-> <<900, 3, 3>>,
     post_balances |-> <<895, 3, 3>>,
     pre_token_balances |->
        IF isNew THEN <<TokenBalance(1, mint, "P", 1000)>>
        ELSE <<TokenBalance(1, mint, "P", 1000), TokenBalance(2, mint, owner, 4)>>,
     post_token_balances |->
        <<TokenBalance(1, mint, "P", 1000 - moved),
          TokenBalance(2, mint, owner, (IF isNew THEN 0 ELSE 4) + moved)>>]

NotOnLedger ==
    [value |-> FALSE, meta |-> FALSE, err |-> FALSE, account_keys |-> <<>>,
     pre_balances |-> <<>>, post_balances |-> <<>>,
     pre_token_balances |-> <<>>, post_token_balances |-> <<>>]

\* what solana_client.get_transaction returns for each signature
Ledger(sig) ==
    CASE sig = "s20" -> SolTransfer("R", 20, FALSE)
      [] sig = "s19" -> SolTransfer("R", 19, FALSE)
      [] sig = "s18" -> SolTransfer("R", 18, FALSE)
      [] sig = "sX20" -> SolTransfer("X", 20, FALSE)
      [] sig = "sErr" -> SolTransfer("R", 20, TRUE)
      [] sig = "sNoMeta" -> [SolTransfer("R", 20, FALSE) EXCEPT !.meta = FALSE]
      [] sig = "s500M" -> SolTransfer("R", 500000000, FALSE)
      [] sig = "s480M" -> SolTransfer("R", 480000000, FALSE)
      [] sig = "s400M" -> SolTransfer("R", 400000000, FALSE)
      [] sig = "u20" -> TokenTransfer("R", USDC_MINT, 20, FALSE)
      [] sig = "u19" -> TokenTransfer("R", USDC_MINT, 19, TRUE)
      [] sig = "u18" -> TokenTransfer("R", USDC_MINT, 18, FALSE)
      [] sig = "uX20" -> TokenTransfer("X", USDC_MINT, 20, FALSE)
      [] sig = "uM20" -> TokenTransfer("R", OTHER_MINT, 20, FALSE)
      [] OTHER -> NotOnLedger

\* Signature.from_string raises on a string that is no base58 signature
MalformedSig == "bad"


\* ------------------------------------------------------------------ state
VARIABLES
    now,                \* int(time.time()) / datetime.utcnow(), in seconds
    pending_payments,   \* X402Protocol.pending_payments: challenge id -> dict
    created,            \* history: every challenge as it was stored
    calls,              \* verify_payment calls: invoked, then run to their return
    responses,          \* what confirm_payment answered, by call
    chain,              \* the ledger's memo transactions: signature -> transaction
    authority,          \* SASService.authority_keypair.pubkey()
    issue,              \* what the last create_attestation call returned or raised
    verification,       \* what the last verify_attestation call returned
    usage_receipts,     \* the usage receipts recorded in the database
    reviews,            \* table reviews, in insertion order (id = position)
    review_helpful_votes, \* table review_helpful_votes: <<review_id, voter_wallet>>
    reputation,         \* datasets.reputation_data: dataset id -> record
    review_calls,       \* create_review calls between their awaits
    ipfs                \* IPFSService: the documents uploaded, in order

sasState == <<chain, authority, issue, verification>>
payState == <<pending_payments, created, calls, responses>>
revState == <<usage_receipts, reviews, review_helpful_votes, reputation, review_calls, ipfs>>
vars ==
    <<now, pending_payments, created, calls, responses, chain, authority, issue,
      verification,
      usage_receipts, reviews, review_helpful_votes, reputation, review_calls,
      ipfs>>

\* ---------------------------------------------------- X402Protocol, pure
\* int(amount * 10**decimals): truncation toward zero
ToSmallestUnits(amount) ==
    IF amount >= 0 THEN amount \div AmountDen ELSE -((-amount) \div AmountDen)

\* create_payment_request: the dict it stores and returns
create_payment_request(challenge_id, amount, recipient_wallet, currency, t) ==
    IF currency = "USDC"
    THEN [challenge_id |-> challenge_id,
          recipient |-> recipient_wallet,
          recipient_token_account |->
              get_associated_token_address(recipient_wallet, USDC_MINT),
          amount |-> amount,
          amount_tokens |-> ToSmallestUnits(amount),
          currency |-> "USDC",
          mint_address |-> USDC_MINT,
          timestamp |-> t,
          expires_at |-> t + ExpiryWindow]
    ELSE [challenge_id |-> challenge_id,
          recipient |-> recipient_wallet,
          amount |-> amount,
          amount_lamports |-> ToSmallestUnits(amount),
          currency |-> "SOL",
          timestamp |-> t,
          expires_at |-> t + ExpiryWindow]

\* faulty variant: the tolerance forgotten, the full amount demanded
MeetsToleranceExact(balance_change, expected) == balance_change >= expected

\* balance_change >= expected * 0.95, the float product compared with an int
MeetsTolerance(balance_change, expected) ==
    balance_change >= expected - (expected \div 20)

Outcome(result, reason, consume) ==
    [result |-> result, reason |-> reason, consume |-> consume]

\* faulty variant: a payment accepted without removing the challenge
verify_sol_payment_keeps(tx, payment_request) ==
    IF \E i \in DOMAIN tx.account_keys :
          /\ tx.account_keys[i] = payment_request.recipient
          /\ MeetsTolerance(tx.post_balances[i] - tx.pre_balances[i],
                            payment_request.amount_lamports)
    THEN Outcome(TRUE, "ok", FALSE)
    ELSE Outcome(FALSE, "insufficient", FALSE)

\* faulty variant: the challenge removed before the amount is looked at
verify_sol_payment_drops(tx, payment_request) ==
    IF \E i \in DOMAIN tx.account_keys :
          /\ tx.account_keys[i] = payment_request.recipient
          /\ MeetsTolerance(tx.post_balances[i] - tx.pre_balances[i],
                            payment_request.amount_lamports)
    THEN Outcome(TRUE, "ok", TRUE)
    ELSE Outcome(FALSE, "insufficient", TRUE)

\* _verify_sol_payment
verify_sol_payment(tx, payment_request) ==
    LET keys == tx.account_keys
        recipient == payment_request.recipient
        found_recipient == \E i \in DOMAIN keys : keys[i] = recipient
    IN  IF ~found_recipient THEN Outcome(FALSE, "recipient_absent", FALSE)
        ELSE IF tx.post_balances # <<>> /\ tx.pre_balances # <<>>
        THEN LET i == CHOOSE k \in DOMAIN keys :
                        /\ keys[k] = recipient
                        /\ \A j \in DOMAIN keys : keys[j] = recipient => k <= j
                 balance_change == tx.post_balances[i] - tx.pre_balances[i]
             IN  IF MeetsTolerance(balance_change, payment_request.amount_lamports)
                 THEN Outcome(TRUE, "ok", TRUE)
                 ELSE Outcome(FALSE, "insufficient", FALSE)
        ELSE Outcome(FALSE, "no_balance", FALSE)

\* the pre-balance the inner loop of _verify_usdc_payment finds for an index
PreAmount(tx, account_index) ==
    LET pre == tx.pre_token_balances
        hits == {k \in DOMAIN pre : pre[k].account_index = account_index}
    IN  IF hits = {} THEN 0
        ELSE pre[CHOOSE k \in hits : \A j \in hits : k <= j].amount

\* the condition under which the loop of _verify_usdc_payment returns True on
\* an entry of post_token_balances
UsdcEntryAccepts(tx, payment_request, post_balance) ==
    LET balance_change ==
            post_balance.amount - PreAmount(tx, post_balance.account_index)
    IN  /\ balance_change > 0
        /\ MeetsTolerance(balance_change, payment_request.amount_tokens)

\* faulty variant: a token payment accepted without removing the challenge
verify_usdc_payment_keeps(tx, payment_request) ==
    IF \E k \in DOMAIN tx.post_token_balances :
          UsdcEntryAccepts(tx, payment_request, tx.post_token_balances[k])
    THEN Outcome(TRUE, "ok", FALSE)
    ELSE Outcome(FALSE, "no_token_match", FALSE)

\* _verify_usdc_payment
verify_usdc_payment(tx, payment_request) ==
    IF tx.pre_token_balances # <<>> /\ tx.post_token_balances # <<>>
    THEN IF \E k \in DOMAIN tx.post_token_balances :
                UsdcEntryAccepts(tx, payment_request, tx.post_token_balances[k])
         THEN Outcome(TRUE, "ok", TRUE)
         ELSE Outcome(FALSE, "no_token_match", FALSE)
    ELSE Outcome(FALSE, "no_token_data", FALSE)

\* faulty variant: the expiry test off by one second
IsExpiredLate(payment_request, t) == t > payment_request.expires_at + 1

\* current_time > payment_request["expires_at"]
IsExpired(payment_request, t) == t > payment_request.expires_at

\* verify_payment at time t; rpc_fails: solana_client.get_transaction raises
verify_payment(pending, challenge_id, sig, rpc_fails, t) ==
    IF challenge_id \notin DOMAIN pending
    THEN Outcome(FALSE, "not_found", FALSE)
    ELSE LET payment_request == pending[challenge_id] IN
         IF IsExpired(payment_request, t)
         THEN Outcome(FALSE, "expired", TRUE)
         ELSE IF sig = MalformedSig THEN Outcome(FALSE, "bad_signature", FALSE)
         ELSE IF rpc_fails THEN Outcome(FALSE, "rpc_error", FALSE)
         ELSE LET tx == Ledger(sig) IN
              IF ~tx.value THEN Outcome(FALSE, "tx_not_found", FALSE)
              ELSE IF ~tx.meta THEN Outcome(FALSE, "no_meta", FALSE)
              ELSE IF tx.err THEN Outcome(FALSE, "tx_failed", FALSE)
              ELSE IF payment_request.currency = "USDC"
                   THEN verify_usdc_payment(tx, payment_request)
                   ELSE verify_sol_payment(tx, payment_request)

\* del self.pending_payments[challenge_id] (guarded by a membership test
\* where the code has one, and reached only with the key present otherwise)
Remove(pending, challenge_id) ==
    [c \in DOMAIN pending \ {challenge_id} |-> pending[c]]

\* ------------------------------------------------------ SASService, pure
\* an Optional[int]: None, or a value
None == <<>>
Some(x) == <<x>>
ValueOf(opt) == opt[1]
\* an expires_at text that datetime.fromisoformat does not take
NotIso == <<0, 0>>

\* faulty variant: a registry that takes one more name
SchemasAndBogus ==
    {"publisher_verified_v1", "dataset_quality_v1", "dataset_freshness_v1",
     "dataset_usage_receipt_v1", "dataset_review_v1", "bogus_v1"}

\* self.schemas
Schemas ==
    {"publisher_verified_v1", "dataset_quality_v1", "dataset_freshness_v1",
     "dataset_usage_receipt_v1", "dataset_review_v1"}

\* "if len(memo_data) > 500" and "[:500]"
MemoLimit == 500
\* str(data)[:200] + "..."
KeptChars == 200
\* timedelta(days=expiry_days), in seconds
DaySeconds == 86400

\* len() of a schema name
NameLen(schema_name) ==
    CASE schema_name = "publisher_verified_v1" -> 21
      [] schema_name = "dataset_quality_v1" -> 18
      [] schema_name = "dataset_freshness_v1" -> 20
      [] schema_name = "dataset_usage_receipt_v1" -> 24
      [] schema_name = "dataset_review_v1" -> 17
      [] OTHER -> 8

\* len(json.dumps(attestation_payload, separators=(",", ":"))) without the
\* value of "data": the keys, the punctuation and a 26-character issued_at
\* (145 characters), the schema name, a 44-character subject, a 44-character
\* issuer, and expires_at (null, or a 19-character timestamp in quotes)
EnvelopeLen(schema_name, expires_at) ==
    145 + NameLen(schema_name) + 44 + 44
        + (IF expires_at = None THEN 4 ELSE 21)

\* a payload: what it says, len(json.dumps(data)) and len(str(data)), and the
\* characters json.dumps adds when escaping str(data)[:200]
Payload(value, json_len, str_len, escapes) ==
    [value |-> value, json_len |-> json_len, str_len |-> str_len,
     escapes |-> escapes]

\* len(json.dumps(str(data)[:200] + "...")): the kept characters, the dots, the
\* quotes and the escapes
CutLen(data) ==
    (IF data.str_len < KeptChars THEN data.str_len ELSE KeptChars) + 3 + 2
        + data.escapes

\* expiry_timestamp: int((utcnow() + timedelta(days)).timestamp()), and back
\* through fromtimestamp().isoformat(); "if expiry_days:" takes 0 for none
ExpiresAt(expiry_days, t) ==
    IF expiry_days = None \/ ValueOf(expiry_days) = 0 THEN None
    ELSE Some(t + ValueOf(expiry_days) * DaySeconds)

\* faulty variant: every payload is cut, whatever its size
AttestationMemoCut(schema_name, subject, issuer, data, t, expires_at) ==
    [kind |-> "attestation",
     intact |-> EnvelopeLen(schema_name, expires_at) + CutLen(data) <= MemoLimit,
     schema |-> schema_name, subject |-> subject, issuer |-> issuer,
     data |-> [cut |-> TRUE, value |-> data.value], issued_at |-> t,
     expires_at |-> expires_at]

\* the memo text create_attestation writes: intact says whether the text is
\* the whole JSON document (json.loads reads it) or a slice of it
AttestationMemo(schema_name, subject, issuer, data, t, expires_at) ==
    IF EnvelopeLen(schema_name, expires_at) + data.json_len > MemoLimit
    THEN [kind |-> "attestation",
          intact |-> EnvelopeLen(schema_name, expires_at) + CutLen(data) <= MemoLimit,
          schema |-> schema_name, subject |-> subject, issuer |-> issuer,
          data |-> [cut |-> TRUE, value |-> data.value], issued_at |-> t,
          expires_at |-> expires_at]
    ELSE [kind |-> "attestation", intact |-> TRUE,
          schema |-> schema_name, subject |-> subject, issuer |-> issuer,
          data |-> [cut |-> FALSE, value |-> data.value], issued_at |-> t,
          expires_at |-> expires_at]

\* the data of an instruction that is no memo of this service
OtherInstruction == [kind |-> "other"]

\* instructions = [set_compute_unit_limit, set_compute_unit_price, memo]
MemoTransaction(memo, failed) ==
    [err |-> failed, instructions |-> <<OtherInstruction, OtherInstruction, memo>>]

\* memo_text.startswith('{"type":"quarry_attestation"') and json.loads reads it
Decodes(ix) == ix.kind = "attestation" /\ ix.intact

\* an id that Signature.from_string does not take
MalformedId == 0

\* faulty variant: expiry left out of the verdict
IsValidIgnoringExpiry(issuer_verified, is_expired, schema_valid) ==
    issuer_verified /\ schema_valid

\* is_valid = issuer_verified and not is_expired and schema_valid
IsValid(issuer_verified, is_expired, schema_valid) ==
    issuer_verified /\ ~is_expired /\ schema_valid

\* is_expired: "if attestation_data.get('expires_at')" and utcnow() > expiry_time
AttestationExpired(attestation_data, t) ==
    /\ attestation_data.expires_at # None
    /\ t > ValueOf(attestation_data.expires_at)

\* verify_attestation at time t.  answer: what client.get_transaction does:
\*   "ok"         it returns the transaction, each instruction with a
\*                program_id and its data as the text that was written
\*   "raises"     it raises (network, timeout)
\*   "unreadable" it returns the transaction, the instructions in a form the
\*                loop cannot read (no program_id, or data still encoded), so
\*                that every instruction is passed over
verify_attestation(ledger, issuer_pubkey, attestation_id, answer, t) ==
    IF attestation_id = MalformedId
    THEN [attestation_id |-> attestation_id, is_valid |-> FALSE,
          error |-> "Invalid signature format"]
    ELSE IF answer = "raises"
    THEN [attestation_id |-> attestation_id, is_valid |-> FALSE,
          error |-> "exception"]
    ELSE IF attestation_id \notin DOMAIN ledger
    THEN [attestation_id |-> attestation_id, is_valid |-> FALSE,
          is_expired |-> FALSE, is_revoked |-> FALSE,
          issuer_verified |-> FALSE, schema_valid |-> FALSE,
          error |-> "Transaction not found on blockchain"]
    ELSE IF ledger[attestation_id].err
    THEN [attestation_id |-> attestation_id, is_valid |-> FALSE,
          error |-> "Transaction failed"]
    ELSE LET instructions == ledger[attestation_id].instructions
             hits == {k \in DOMAIN instructions :
                         answer = "ok" /\ Decodes(instructions[k])}
         IN  IF hits = {}
             THEN [attestation_id |-> attestation_id, is_valid |-> FALSE,
                   error |-> "No attestation data in transaction"]
             ELSE LET attestation_data ==
                          instructions[CHOOSE k \in hits : \A j \in hits : k <= j]
                      issuer_verified == attestation_data.issuer = issuer_pubkey
                      is_expired == AttestationExpired(attestation_data, t)
                      schema_valid == attestation_data.schema \in Schemas
                  IN  IF attestation_data.expires_at = NotIso
                      THEN [attestation_id |-> attestation_id,
                            is_valid |-> FALSE, error |-> "exception"]
                      ELSE
                      [attestation_id |-> attestation_id,
                       is_valid |-> IsValid(issuer_verified, is_expired, schema_valid),
                       is_expired |-> is_expired,
                       is_revoked |-> FALSE,
                       issuer_verified |-> issuer_verified,
                       schema_valid |-> schema_valid,
                       attestation_data |-> attestation_data,
                       on_chain |-> TRUE]

\* ------------------------------------------------------ SASService, steps
\* the signature of the next transaction written to the ledger
NextSignature == Cardinality(DOMAIN chain) + 1

\* the exception create_attestation re-raises from its except clause: the one
\* the RPC client raised, whichever call it came from, or the Exception the
\* method itself raises for a confirmed status that carries an error
RaisedBy(fault) ==
    IF fault = "failed" THEN "Exception: Transaction failed" ELSE "ClientError"

\* the body of create_attestation: what it writes and what it returns or
\* raises.  fault: where the call fails, if it does:
\*   "unsent"      get_latest_blockhash or send_transaction raises, nothing sent
\*   "sent"        send_transaction raises after the node took the transaction,
\*                 or confirm_transaction raises
\*   "failed"      the confirmed status carries an error
Attest(schema_name, subject, data, expiry_days, fault) ==
    IF schema_name \notin Schemas
       THEN /\ issue' = [status |-> "raised", error |-> "ValueError"]
            /\ chain' = chain
       ELSE LET expires_at == ExpiresAt(expiry_days, now)
                memo == AttestationMemo(schema_name, subject, authority, data,
                                        now, expires_at)
                written == chain @@ (NextSignature :> MemoTransaction(memo, fault = "failed"))
            IN  IF fault = "none"
                THEN /\ chain' = written
                     /\ issue' = [status |-> "returned",
                                  attestation_id |-> NextSignature,
                                  schema |-> schema_name, subject |-> subject,
                                  issuer |-> authority,
                                  data |-> data,
                                  issued_at |-> now, expires_at |-> expires_at]
                ELSE /\ chain' = IF fault = "unsent" THEN chain ELSE written
                     /\ issue' = [status |-> "raised",
                                  error |-> RaisedBy(fault)]

\* a create_attestation call of its own (at most max_writes ledger entries)
create_attestation(schema_name, subject, data, expiry_days, fault, max_writes) ==
    /\ NextSignature <= max_writes
    /\ Attest(schema_name, subject, data, expiry_days, fault)
    /\ UNCHANGED <<now, payState, authority, verification, revState>>

\* somebody else writes a memo to the ledger
ForeignWrite(memo, max_writes) ==
    /\ NextSignature <= max_writes
    /\ chain' = chain @@ (NextSignature :> MemoTransaction(memo, FALSE))
    /\ UNCHANGED <<now, payState, authority, issue, verification, revState>>

\* the process restarts with no SAS_AUTHORITY_KEY configured: connect()
\* generates a new authority keypair
Restart ==
    /\ authority = "A1"
    /\ authority' = "A2"
    /\ UNCHANGED <<now, payState, chain, issue, verification, revState>>

\* a verify_attestation call
VerifyAttestation(attestation_id, answer) ==
    /\ verification' =
          [called |-> TRUE, attestation_id |-> attestation_id, at |-> now,
           issuer_pubkey |-> authority, answer |-> answer,
           ledger_size |-> Cardinality(DOMAIN chain),
           result |-> verify_attestation(chain, authority, attestation_id,
                                         answer, now)]
    /\ UNCHANGED <<now, payState, chain, authority, issue, revState>>

\* -------------------------------------------------------------- the calls
\* before: the calls that had returned when this one was scheduled
IdleCall ==
    [pc |-> "idle", challenge_id |-> 0, sig |-> "", result |-> FALSE,
     reason |-> "", before |-> {}]

CallIds == 1..MaxCalls

\* what confirm_payment answers: the status code, the query it has run (""
\* if none) and whether the answer carries rows
Response(status, executed, rows) ==
    [status |-> status, executed |-> executed, rows |-> rows]
NoResponse == Response(0, "", FALSE)
Invoked == {i \in CallIds : calls[i].pc # "idle"}
Done == {i \in CallIds : calls[i].pc = "done"}
NumCreated == Cardinality(DOMAIN created)

\* ---------------------------------------------------------------- actions
\* time passes
Tick(d, max_time) ==
    /\ now + d <= max_time
    /\ now' = now + d
    /\ UNCHANGED <<payState, sasState, revState>>

\* the body of execute_query_tool, from the cost it has computed: creates the
\* payment request (uuid4: a fresh id) and stores the query with it (at most
\* max_challenges in a behaviour)
PaymentRequired(total_cost, currency, max_challenges) ==
    /\ NumCreated < max_challenges
    /\ LET challenge_id == NumCreated + 1
           payment_request ==
               create_payment_request(challenge_id, total_cost, "R", currency, now)
           stored == payment_request @@ [dataset_slug |-> "ds", sql_query |-> "q"]
       IN  /\ pending_payments' = pending_payments @@ (challenge_id :> stored)
           /\ created' = created @@ (challenge_id :> stored)
    /\ UNCHANGED <<now, calls, responses, sasState, revState>>

execute_query_tool(total_cost, currency) ==
    PaymentRequired(total_cost, currency, MaxChallenges)

\* a verify_payment call is scheduled (at most max_calls in a behaviour)
InvokeVerify(challenge_id, sig, max_calls) ==
    /\ Cardinality(Invoked) < max_calls
    /\ calls' = [calls EXCEPT ![Cardinality(Invoked) + 1] =
                    [IdleCall EXCEPT !.pc = "ready", !.challenge_id = challenge_id,
                                     !.sig = sig, !.before = Done]]
    /\ UNCHANGED <<now, pending_payments, created, responses, sasState, revState>>

\* a scheduled verify_payment call runs, from its first line to its return
RunVerify(i, rpc_fails) ==
    /\ calls[i].pc = "ready"
    /\ LET out == verify_payment(pending_payments, calls[i].challenge_id,
                                 calls[i].sig, rpc_fails, now)
       IN  /\ pending_payments' =
                 IF out.consume /\ calls[i].challenge_id \in DOMAIN pending_payments
                 THEN Remove(pending_payments, calls[i].challenge_id)
                 ELSE pending_payments
           /\ calls' = [calls EXCEPT ![i] =
                    [@ EXCEPT !.pc = "done", !.result = out.result,
                              !.reason = out.reason]]
    /\ UNCHANGED <<now, created, responses, sasState, revState>>

\* faulty variant: the query is run and its rows are returned whatever
\* verify_payment said
confirm_payment_unverified(i, rpc_fails, query_fails) ==
    /\ calls[i].pc = "ready"
    /\ LET challenge_id == calls[i].challenge_id
       IN  IF challenge_id \notin DOMAIN pending_payments
           THEN /\ calls' = [calls EXCEPT ![i] =
                        [@ EXCEPT !.pc = "done", !.reason = "not_called"]]
                /\ responses' = [responses EXCEPT ![i] = Response(404, "", FALSE)]
                /\ pending_payments' = pending_payments
           ELSE LET payment_info == pending_payments[challenge_id]
                    out == verify_payment(pending_payments, challenge_id,
                                          calls[i].sig, rpc_fails, now)
                IN  /\ pending_payments' =
                          IF out.consume
                          THEN Remove(pending_payments, challenge_id)
                          ELSE pending_payments
                    /\ calls' = [calls EXCEPT ![i] =
                             [@ EXCEPT !.pc = "done", !.result = out.result,
                                       !.reason = out.reason]]
                    /\ responses' = [responses EXCEPT ![i] =
                             IF query_fails
                             THEN Response(500, payment_info.sql_query, FALSE)
                             ELSE Response(200, payment_info.sql_query, TRUE)]
    /\ UNCHANGED <<now, created, sasState, revState>>

\* confirm_payment, a scheduled call run from its first line to its return:
\* the 404 test, the copy of the stored challenge, verify_payment, the 402
\* test, the query (query_fails: db.query_dataset raises, answered 500) and
\* the rows.  The usage-receipt block reads payment.payer_wallet, which
\* PaymentConfirmation does not have, or finds no dataset: it is left through
\* its except clause or its else branch before create_usage_receipt is
\* called, and changes nothing.
confirm_payment(i, rpc_fails, query_fails) ==
    /\ calls[i].pc = "ready"
    /\ LET challenge_id == calls[i].challenge_id
       IN  IF challenge_id \notin DOMAIN pending_payments
           THEN /\ calls' = [calls EXCEPT ![i] =
                        [@ EXCEPT !.pc = "done", !.reason = "not_called"]]
                /\ responses' = [responses EXCEPT ![i] = Response(404, "", FALSE)]
                /\ pending_payments' = pending_payments
           ELSE LET payment_info == pending_payments[challenge_id]
                    out == verify_payment(pending_payments, challenge_id,
                                          calls[i].sig, rpc_fails, now)
                IN  /\ pending_payments' =
                          IF out.consume
                          THEN Remove(pending_payments, challenge_id)
                          ELSE pending_payments
                    /\ calls' = [calls EXCEPT ![i] =
                             [@ EXCEPT !.pc = "done", !.result = out.result,
                                       !.reason = out.reason]]
                    /\ responses' = [responses EXCEPT ![i] =
                             IF ~out.result THEN Response(402, "", FALSE)
                             ELSE IF query_fails
                             THEN Response(500, payment_info.sql_query, FALSE)
                             ELSE Response(200, payment_info.sql_query, TRUE)]
    /\ UNCHANGED <<now, created, sasState, revState>>

\* ------------------------------------------------- reviews and reputation
Datasets == {"D1", "D2"}
Versions == {"v1", "v2"}
Wallets == {"W1", "W2"}

\* reputation_data IS NULL: get_dataset_reputation returns None
NoReputation == [stored |-> FALSE]

\* limit: int = 50 of get_dataset_reviews
PageLimit == 50

\* round(num / den), to an integer: Python rounds the float it has computed,
\* which at an exact tie may lie on either side of the half (see Numbers)
Rounded(num, den) ==
    LET q == num \div den
        r == num % den
    IN  IF 2 * r < den THEN {q}
        ELSE IF 2 * r > den THEN {q + 1}
        ELSE {q, q + 1}

\* the ids (positions) of the stored reviews of a dataset version
ReviewIds(rs, dataset_id, dataset_version) ==
    {i \in DOMAIN rs : /\ rs[i].dataset_id = dataset_id
                       /\ rs[i].dataset_version = dataset_version}

\* get_reviews_for_dataset: ORDER BY created_at DESC LIMIT limit, the newest
get_reviews_for_dataset(rs, dataset_id, dataset_version, limit) ==
    LET ids == ReviewIds(rs, dataset_id, dataset_version)
    IN  {i \in ids : Cardinality({j \in ids : j > i}) < limit}

\* count_reviews_for_dataset: COUNT(*)
count_reviews_for_dataset(rs, dataset_id, dataset_version) ==
    Cardinality(ReviewIds(rs, dataset_id, dataset_version))

RECURSIVE SumOfRatings(_, _)
SumOfRatings(rs, ids) ==
    IF ids = {} THEN 0
    ELSE LET i == CHOOSE j \in ids : TRUE
         IN  rs[i].rating + SumOfRatings(rs, ids \ {i})

\* rating_distribution of get_dataset_reviews
RatingDistribution(rs, ids) ==
    [r \in 1..5 |-> Cardinality({i \in ids : rs[i].rating = r})]

\* get_dataset_reviews: the statistics it can return; average_rating is
\* round(sum / len, 2), in hundredths of a star
get_dataset_reviews(rs, dataset_id, dataset_version) ==
    LET page == get_reviews_for_dataset(rs, dataset_id, dataset_version, PageLimit)
        total == count_reviews_for_dataset(rs, dataset_id, dataset_version)
        averages == IF page = {} THEN {0}
                    ELSE Rounded(100 * SumOfRatings(rs, page), Cardinality(page))
    IN  {[total_reviews |-> total, average_rating |-> a,
          rating_distribution |-> RatingDistribution(rs, page)] : a \in averages}

\* faulty variant: the weight of the reviews grows without the cap
ReviewWeightUncapped(total_reviews) == 10 + total_reviews * 3

\* review_weight = min(0.4, 0.1 + (total_reviews * 0.03)), in hundredths
ReviewWeight(total_reviews) ==
    IF 10 + total_reviews * 3 < 40 THEN 10 + total_reviews * 3 ELSE 40

\* faulty variant: the automated score is taken whole, not by its weight
CombinedScoresUnweighted(automated_score, user_rating, review_weight) ==
    Rounded(5 * automated_score * 100 + user_rating * review_weight, 500)

\* int(round(automated_score * (1.0 - review_weight)
\*           + (user_rating / 5.0) * 100 * review_weight)),
\* user_rating and review_weight in hundredths
CombinedScores(automated_score, user_rating, review_weight) ==
    Rounded(5 * automated_score * (100 - review_weight)
            + user_rating * review_weight, 500)

\* the records _update_dataset_reputation_with_review can store over `rec`
ReputationsWithReviews(rec, rs, dataset_id, dataset_version) ==
    LET automated_score ==
            IF "quality_score" \in DOMAIN rec THEN rec.quality_score ELSE 0
    IN  UNION {
          {[user_rating |-> st.average_rating,
            total_reviews |-> st.total_reviews,
            verified_reviews |-> st.total_reviews,
            combined_score |-> c,
            rating_distribution |-> st.rating_distribution,
            review_weight |-> ReviewWeight(st.total_reviews)] @@ rec :
              c \in CombinedScores(automated_score, st.average_rating,
                                   ReviewWeight(st.total_reviews))} :
          st \in get_dataset_reviews(rs, dataset_id, dataset_version)}

\* _update_dataset_reputation_with_review: no record, no update
_update_dataset_reputation_with_review(rs, dataset_id, dataset_version) ==
    IF ~reputation[dataset_id].stored
    THEN reputation' = reputation
    ELSE \E rec \in ReputationsWithReviews(reputation[dataset_id], rs,
                                           dataset_id, dataset_version) :
             reputation' = [reputation EXCEPT ![dataset_id] = rec]

\* the recomputation on its own, over the reviews as they are stored
UpdateReputation(dataset_id, dataset_version) ==
    /\ _update_dataset_reputation_with_review(reviews, dataset_id, dataset_version)
    /\ UNCHANGED <<now, payState, sasState, usage_receipts, reviews,
                   review_helpful_votes, review_calls, ipfs>>

\* _calculate_quality_score, from whole percentages:
\* int(round(completeness * 0.4 + duplicates * 0.3 + quality * 0.2 + pii * 0.1))
_calculate_quality_score(missing_percentage, duplicate_percentage, issues_found, risk_level) ==
    LET completeness_score ==
            IF 100 - missing_percentage > 0 THEN 100 - missing_percentage ELSE 0
        duplicate_score ==
            IF 100 - duplicate_percentage * 2 > 0
            THEN 100 - duplicate_percentage * 2 ELSE 0
        quality_issues_penalty ==
            IF issues_found * 10 < 50 THEN issues_found * 10 ELSE 50
        quality_score ==
            IF 100 - quality_issues_penalty > 0 THEN 100 - quality_issues_penalty ELSE 0
        pii_score == CASE risk_level = "low" -> 100
                       [] risk_level = "medium" -> 60
                       [] risk_level = "high" -> 30
                       [] OTHER -> 100
    IN  Rounded(completeness_score * 4 + duplicate_score * 3 + quality_score * 2
                + pii_score, 10)

Badge(type, level) == [type |-> type, level |-> level]

\* faulty variant: the second quality test is an "if", not an "elif"
_calculate_badges_both(score, risk_level, freshness) ==
    (IF score >= 90 THEN <<Badge("quality", "excellent")>> ELSE <<>>)
    \o (IF score >= 75 THEN <<Badge("quality", "good")>> ELSE <<>>)
    \o (IF risk_level = "low" THEN <<Badge("pii_safe", "safe")>> ELSE <<>>)
    \o (IF freshness = "fresh" THEN <<Badge("freshness", "fresh")>> ELSE <<>>)
    \o <<Badge("verified", "on_chain")>>

\* _calculate_badges: the badges, in the order they are appended
_calculate_badges(score, risk_level, freshness) ==
    (IF score >= 90 THEN <<Badge("quality", "excellent")>>
     ELSE IF score >= 75 THEN <<Badge("quality", "good")>> ELSE <<>>)
    \o (IF risk_level = "low" THEN <<Badge("pii_safe", "safe")>> ELSE <<>>)
    \o (IF freshness = "fresh" THEN <<Badge("freshness", "fresh")>> ELSE <<>>)
    \o <<Badge("verified", "on_chain")>>

\* derive_dataset_version_pda: deterministic and, sha256 taken as such, injective
derive_dataset_version_pda(dataset_id, version_or_hash) ==
    <<"pda", dataset_id, version_or_hash>>

\* the attestation data the services build, with the lengths of their
\* serializations for 44-character keys, 88-character signatures and
\* 46-character content ids
QualityData(dataset_id, dataset_version, quality_score) ==
    Payload(<<"quality", dataset_id, dataset_version, quality_score>>, 322, 337, 0)
FreshnessData(dataset_id, dataset_version, freshness) ==
    Payload(<<"freshness", dataset_id, dataset_version, freshness>>, 136, 143, 0)
UsageReceiptData(reviewer_wallet, dataset_id, dataset_version) ==
    Payload(<<"usage_receipt", reviewer_wallet, dataset_id, dataset_version>>,
            304, 315, 0)
ReviewData(reviewer_wallet, dataset_id, dataset_version, rating, receipt) ==
    Payload(<<"review", reviewer_wallet, dataset_id, dataset_version, rating,
              receipt>>, 373, 386, 0)

\* expiry_days=30 of create_dataset_quality_attestation, expiry_days=7 of
\* create_dataset_freshness_attestation
QualityExpiryDays == 30
FreshnessExpiryDays == 7

\* reputation_summary of process_dataset_reputation: the fields the
\* recomputation and the badges are read from
ReputationSummary(dataset_id, dataset_version, quality_score, risk_level, freshness) ==
    [stored |-> TRUE, dataset_id |-> dataset_id,
     dataset_version |-> dataset_version,
     quality_score |-> quality_score,
     pii_risk |-> risk_level, freshness |-> freshness,
     badges |-> _calculate_badges(quality_score, risk_level, freshness)]

\* qa_report of process_dataset_reputation, the document it uploads
ReportDocument(dataset_id) == [kind |-> "qa_report", dataset_id |-> dataset_id]

\* process_dataset_reputation, a QA pass.  qa: the measurements of the report.
\* fault: "none"; "qa" (run_qa_checks or the report upload raises and nothing
\* is stored, or the pin raises and the report is);
\* "quality", "freshness" (that attestation is not sent and raises).  The
\* record is written in the last step of the handler, after its last await,
\* and holds nothing the handler has read before; the handler is one step.
\* max_ledger bounds the transactions of the ledger and, two transactions
\* to a pass, the reports uploaded.
process_dataset_reputation(dataset_id, dataset_version, qa, fault, max_ledger) ==
    /\ NextSignature + 1 <= max_ledger
    /\ 2 * Cardinality({k \in DOMAIN ipfs : ipfs[k].kind = "qa_report"}) < max_ledger
    /\ \E quality_score \in _calculate_quality_score(qa.missing, qa.duplicates,
                                                    qa.issues, qa.risk_level) :
         LET subject == derive_dataset_version_pda(dataset_id, dataset_version)
             quality_data == QualityData(dataset_id, dataset_version, quality_score)
             quality_expires == ExpiresAt(Some(QualityExpiryDays), now)
             quality_memo ==
                 AttestationMemo("dataset_quality_v1", subject, authority,
                                 quality_data, now, quality_expires)
             freshness_data == FreshnessData(dataset_id, dataset_version, qa.freshness)
             freshness_expires == ExpiresAt(Some(FreshnessExpiryDays), now)
             freshness_memo ==
                 AttestationMemo("dataset_freshness_v1", subject, authority,
                                 freshness_data, now, freshness_expires)
             first == chain @@ (NextSignature :> MemoTransaction(quality_memo, FALSE))
             both == first @@ (NextSignature + 1 :>
                                   MemoTransaction(freshness_memo, FALSE))
         IN  CASE fault = "none" ->
                    /\ chain' = both
                    /\ issue' = [status |-> "returned",
                                 attestation_id |-> NextSignature + 1,
                                 schema |-> "dataset_freshness_v1",
                                 subject |-> subject, issuer |-> authority,
                                 data |-> freshness_data, issued_at |-> now,
                                 expires_at |-> freshness_expires]
                    /\ reputation' =
                          [reputation EXCEPT ![dataset_id] =
                              ReputationSummary(dataset_id, dataset_version,
                                                quality_score, qa.risk_level,
                                                qa.freshness)]
               [] fault = "freshness" ->
                    /\ chain' = first
                    /\ issue' = [status |-> "raised", error |-> RaisedBy("unsent")]
                    /\ reputation' = reputation
               [] fault = "quality" ->
                    /\ chain' = chain
                    /\ issue' = [status |-> "raised", error |-> RaisedBy("unsent")]
                    /\ reputation' = reputation
               [] OTHER ->
                    /\ UNCHANGED <<chain, issue, reputation>>
    /\ LET uploaded == Append(ipfs, ReportDocument(dataset_id))
       IN  IF fault \in {"none", "freshness", "quality"}
           THEN ipfs' = uploaded
           ELSE ipfs' \in {ipfs, uploaded}
    /\ UNCHANGED <<now, payState, authority, verification, usage_receipts,
                   reviews, review_helpful_votes, review_calls>>

\* db.get_usage_receipt(reviewer_wallet, dataset_id, dataset_version): the
\* recorded receipts of that wallet for that dataset version
get_usage_receipt(receipts, reviewer_wallet, dataset_id, dataset_version) ==
    {r \in receipts : /\ r.reviewer_wallet = reviewer_wallet
                      /\ r.dataset_id = dataset_id
                      /\ r.dataset_version = dataset_version}

\* db.create_usage_receipt: the receipt is recorded
create_usage_receipt_record(receipts, receipt) == receipts \cup {receipt}

\* ReputationService.create_usage_receipt, as POST /reputation/usage-receipt
\* calls it with the wallet, dataset and version of the request: the receipt
\* attestation, then the database record
create_usage_receipt(reviewer_wallet, dataset_id, dataset_version, fault, max_ledger) ==
    /\ NextSignature <= max_ledger
    /\ Attest("dataset_usage_receipt_v1", reviewer_wallet,
              UsageReceiptData(reviewer_wallet, dataset_id, dataset_version),
              None, fault)
    /\ usage_receipts' =
          IF fault = "none"
          THEN create_usage_receipt_record(usage_receipts,
                   [id |-> NextSignature, reviewer_wallet |-> reviewer_wallet,
                    dataset_id |-> dataset_id,
                    dataset_version |-> dataset_version])
          ELSE usage_receipts
    /\ UNCHANGED <<now, payState, authority, verification, reviews,
                   review_helpful_votes, reputation, review_calls, ipfs>>

\* get_review_by_wallet_and_dataset
get_review_by_wallet_and_dataset(rs, reviewer_wallet, dataset_id, dataset_version) ==
    {i \in DOMAIN rs : /\ rs[i].reviewer_wallet = reviewer_wallet
                       /\ rs[i].dataset_id = dataset_id
                       /\ rs[i].dataset_version = dataset_version}

IdleReview ==
    [pc |-> "idle", reviewer_wallet |-> "", dataset_id |-> "",
     dataset_version |-> "", rating |-> 0, usage_receipt_attestation |-> 0,
     error |-> ""]

ReviewCallIds == 1..MaxReviewCalls
StartedReviews == {i \in ReviewCallIds : review_calls[i].pc # "idle"}

\* review_data of create_review, the document it uploads
ReviewDocument(reviewer_wallet, dataset_id, rating) ==
    [kind |-> "review", reviewer_wallet |-> reviewer_wallet,
     dataset_id |-> dataset_id, rating |-> rating]

\* faulty variant: the purchase is not looked up
ReviewRejectionUnchecked(receipts, rs, reviewer_wallet, dataset_id, dataset_version) ==
    IF get_review_by_wallet_and_dataset(rs, reviewer_wallet, dataset_id,
                                        dataset_version) # {}
    THEN "already reviewed"
    ELSE ""

\* steps 1 and 2 of create_review: the ValueError they raise, "" if none
ReviewRejection(receipts, rs, reviewer_wallet, dataset_id, dataset_version) ==
    IF get_usage_receipt(receipts, reviewer_wallet, dataset_id,
                         dataset_version) = {}
    THEN "must purchase"
    ELSE IF get_review_by_wallet_and_dataset(rs, reviewer_wallet, dataset_id,
                                             dataset_version) # {}
    THEN "already reviewed"
    ELSE ""

\* faulty variant: the review text is uploaded before the checks are made
CreateReviewBeginUploads(reviewer_wallet, dataset_id, dataset_version, rating, receipt, max_calls) ==
    /\ Cardinality(StartedReviews) < max_calls
    /\ LET error == ReviewRejection(usage_receipts, reviews, reviewer_wallet,
                                    dataset_id, dataset_version)
       IN  review_calls' =
             [review_calls EXCEPT ![Cardinality(StartedReviews) + 1] =
                 [pc |-> IF error = "" THEN "awaiting" ELSE "done",
                  reviewer_wallet |-> reviewer_wallet,
                  dataset_id |-> dataset_id,
                  dataset_version |-> dataset_version, rating |-> rating,
                  usage_receipt_attestation |-> receipt, error |-> error]]
    /\ ipfs' = Append(ipfs, ReviewDocument(reviewer_wallet, dataset_id, rating))
    /\ UNCHANGED <<now, payState, sasState, usage_receipts, reviews,
                   review_helpful_votes, reputation>>

\* create_review up to its first await (the upload of the review text)
CreateReviewBegin(reviewer_wallet, dataset_id, dataset_version, rating, receipt, max_calls) ==
    /\ Cardinality(StartedReviews) < max_calls
    /\ LET error == ReviewRejection(usage_receipts, reviews, reviewer_wallet,
                                    dataset_id, dataset_version)
       IN  review_calls' =
             [review_calls EXCEPT ![Cardinality(StartedReviews) + 1] =
                 [pc |-> IF error = "" THEN "awaiting" ELSE "done",
                  reviewer_wallet |-> reviewer_wallet,
                  dataset_id |-> dataset_id,
                  dataset_version |-> dataset_version, rating |-> rating,
                  usage_receipt_attestation |-> receipt, error |-> error]]
    /\ UNCHANGED <<now, payState, sasState, usage_receipts, reviews,
                   review_helpful_votes, reputation, ipfs>>

\* create_review from its first await to its return: the upload and the pin,
\* the review attestation, the row and the recomputation.  fault: "ipfs" (the
\* upload raises and nothing is stored, or the pin raises and the document
\* is) or a fault of create_attestation
CreateReviewFinish(i, fault, max_ledger) ==
    /\ review_calls[i].pc = "awaiting"
    /\ NextSignature <= max_ledger
    /\ LET c == review_calls[i]
           stored == Append(reviews,
                       [dataset_id |-> c.dataset_id,
                        dataset_version |-> c.dataset_version,
                        reviewer_wallet |-> c.reviewer_wallet,
                        rating |-> c.rating,
                        usage_receipt_attestation |-> c.usage_receipt_attestation,
                        review_attestation_id |-> NextSignature,
                        helpful_count |-> 0])
           uploaded == Append(ipfs, ReviewDocument(c.reviewer_wallet,
                                                   c.dataset_id, c.rating))
       IN  IF fault = "ipfs"
           THEN /\ review_calls' = [review_calls EXCEPT ![i] =
                                       [@ EXCEPT !.pc = "done", !.error = "ipfs"]]
                /\ ipfs' \in {ipfs, uploaded}
                /\ UNCHANGED <<chain, issue, reviews, reputation>>
           ELSE /\ ipfs' = uploaded
                /\ Attest("dataset_review_v1", c.reviewer_wallet,
                          ReviewData(c.reviewer_wallet, c.dataset_id,
                                     c.dataset_version, c.rating,
                                     c.usage_receipt_attestation),
                          None, fault)
                /\ IF fault = "none"
                   THEN /\ reviews' = stored
                        /\ _update_dataset_reputation_with_review(
                               stored, c.dataset_id, c.dataset_version)
                        /\ review_calls' = [review_calls EXCEPT ![i] =
                                               [@ EXCEPT !.pc = "done",
                                                         !.error = "stored"]]
                   ELSE /\ review_calls' = [review_calls EXCEPT ![i] =
                                               [@ EXCEPT !.pc = "done",
                                                         !.error = RaisedBy(fault)]]
                        /\ UNCHANGED <<reviews, reputation>>
    /\ UNCHANGED <<now, payState, authority, verification, usage_receipts,
                   review_helpful_votes>>

\* faulty variant: the vote is counted without the look-up
mark_review_helpful_again(review_id, voter_wallet) ==
    /\ review_id \in DOMAIN reviews
    /\ review_helpful_votes' = review_helpful_votes \cup {<<review_id, voter_wallet>>}
    /\ reviews' = [reviews EXCEPT ![review_id].helpful_count = @ + 1]
    /\ UNCHANGED <<now, payState, sasState, usage_receipts, reputation,
                   review_calls, ipfs>>

\* mark_review_helpful: get_helpful_vote, add_helpful_vote (its INSERT fails
\* for a review id that table reviews does not hold),
\* increment_review_helpful_count
mark_review_helpful(review_id, voter_wallet) ==
    /\ IF \/ <<review_id, voter_wallet>> \in review_helpful_votes
          \/ review_id \notin DOMAIN reviews
       THEN UNCHANGED <<review_helpful_votes, reviews>>
       ELSE /\ review_helpful_votes' =
                  review_helpful_votes \cup {<<review_id, voter_wallet>>}
            /\ reviews' = [reviews EXCEPT ![review_id].helpful_count = @ + 1]
    /\ UNCHANGED <<now, payState, sasState, usage_receipts, reputation,
                   review_calls, ipfs>>

\* ---------------------------------------------------------- specification
TickSteps == {ExpiryWindow, ExpiryWindow + 1}
Currencies == {"SOL", "USDC"}

Init ==
    /\ now = 0
    /\ pending_payments = <<>>
    /\ created = <<>>
    /\ calls = [i \in CallIds |-> IdleCall]
    /\ responses = [i \in CallIds |-> NoResponse]
    /\ chain = <<>>
    /\ authority = "A1"
    /\ issue = [status |-> "none"]
    /\ verification = [called |-> FALSE]
    /\ usage_receipts = {}
    /\ reviews = <<>>
    /\ review_helpful_votes = {}
    /\ reputation = [d \in Datasets |-> NoReputation]
    /\ review_calls = [i \in ReviewCallIds |-> IdleReview]
    /\ ipfs = <<>>

\* the steps of the payment protocol, its inputs drawn from the given sets
PayNext(amounts, currencies, sigs, faults, max_calls) ==
    \/ \E d \in TickSteps : Tick(d, MaxTime)
    \/ \E a \in amounts, c \in currencies : execute_query_tool(a, c)
    \/ \E c \in DOMAIN created, s \in sigs : InvokeVerify(c, s, max_calls)
    \/ \E i \in CallIds, f \in faults : RunVerify(i, f)

\* every kind of request and answer, few calls
Next ==
    PayNext({-2, 0, 1, 40}, Currencies,
            {"s20", "s18", "sNone", "u20", "u18", "uX20", "uM20"}, BOOLEAN, MaxCalls)
Spec == Init /\ [][Next]_vars

\* concurrent calls that present a payment
NextRace == PayNext({40}, Currencies, {"s20", "u20"}, BOOLEAN, MaxCalls)
SpecRace == Init /\ [][NextRace]_vars

\* one call at a time, every way a verification is turned down
NextReject ==
    PayNext({40}, Currencies,
            {"s18", "sX20", "sErr", "sNone", "sNoMeta", "u18", MalformedSig},
            BOOLEAN, MaxProbes)
SpecReject == Init /\ [][NextReject]_vars

\* paid requests and every kind of transaction presented for them
NextPaid ==
    PayNext({40}, Currencies,
            {"s20", "s18", "sNone", "u20", "u18", "uX20", "uM20"}, BOOLEAN, MaxCalls)
SpecPaid == Init /\ [][NextPaid]_vars

\* native payments around the tolerance
NextSol ==
    PayNext({40, 1000000000}, {"SOL"},
            {"s20", "s19", "s18", "sX20", "s500M", "s480M", "s400M"},
            {FALSE}, MaxProbes)
SpecSol == Init /\ [][NextSol]_vars

\* the attestation service: a week is the expiry the callers ask for
ExpiryDays == 7
SasTickSteps == {ExpiryDays * DaySeconds, ExpiryDays * DaySeconds + 1}
SmallData == Payload("small", 40, 38, 0)
LargeData == Payload("large", 600, 590, 0)
QuotedData == Payload("quoted", 600, 590, 120)
ForeignMemos ==
    {OtherInstruction,
     AttestationMemo("dataset_quality_v1", "S1", "Z", SmallData, 0, None),
     AttestationMemo("bogus_v1", "S1", "A1", SmallData, 0,
                     Some(ExpiryDays * DaySeconds)),
     AttestationMemo("dataset_quality_v1", "S1", "A1", SmallData, 0, NotIso)}

Answers == {"ok", "raises", "unreadable"}

SasNext(schemas, datas, expiries, faults, max_writes) ==
    \/ \E d \in SasTickSteps : Tick(d, MaxSasTime)
    \/ \E sc \in schemas, da \in datas, ex \in expiries, f \in faults :
           create_attestation(sc, "S1", da, ex, f, max_writes)
    \/ \E m \in ForeignMemos : ForeignWrite(m, max_writes)
    \/ Restart
    \/ \E id \in (1..NextSignature) \cup {MalformedId}, a \in Answers :
           VerifyAttestation(id, a)

NextSas ==
    SasNext({"dataset_quality_v1", "bogus_v1"},
            {SmallData, LargeData, QuotedData}, {None, Some(0), Some(ExpiryDays)},
            {"none", "unsent", "sent", "failed"}, MaxAttestations)
SpecSas == Init /\ [][NextSas]_vars

\* ------------------------------------------------- what the claims speak of
\* d >= 0.95 * expected, exactly, for integers (19/20 of expected = 20q + r)
AtLeast95Percent(d, expected) ==
    LET q == expected \div 20
        r == expected % 20
    IN  IF d - 19 * q >= 19 THEN TRUE
        ELSE IF d - 19 * q < 0 THEN FALSE
        ELSE 20 * (d - 19 * q) >= 19 * r

Confirmed(tx) == tx.value /\ tx.meta /\ ~tx.err

\* the transaction moved at least 95% of the lamports asked to the recipient
SolPaysRecipient(tx, challenge) ==
    \E i \in DOMAIN tx.account_keys :
        /\ tx.account_keys[i] = challenge.recipient
        /\ i \in DOMAIN tx.pre_balances /\ i \in DOMAIN tx.post_balances
        /\ AtLeast95Percent(tx.post_balances[i] - tx.pre_balances[i],
                            challenge.amount_lamports)

\* the balance an account index had before the transaction (0: a new account)
TokensBefore(tx, idx) ==
    IF \E k \in DOMAIN tx.pre_token_balances :
            tx.pre_token_balances[k].account_index = idx
    THEN (CHOOSE e \in {tx.pre_token_balances[k] : k \in DOMAIN tx.pre_token_balances} :
            e.account_index = idx).amount
    ELSE 0

\* the recipient's token account for the challenge's mint gained at least 95%
\* of the tokens asked
UsdcPaysRecipient(tx, challenge) ==
    \E k \in DOMAIN tx.post_token_balances :
        LET e == tx.post_token_balances[k] IN
        /\ e.owner = challenge.recipient
        /\ e.mint = challenge.mint_address
        /\ AtLeast95Percent(e.amount - TokensBefore(tx, e.account_index),
                            challenge.amount_tokens)

\* the transaction satisfies the challenge
Satisfies(tx, challenge) ==
    /\ Confirmed(tx)
    /\ IF challenge.currency = "USDC" THEN UsdcPaysRecipient(tx, challenge)
       ELSE SolPaysRecipient(tx, challenge)

\* call i returns in this step
Returns(i) == calls[i].pc = "ready" /\ calls'[i].pc = "done"

\* calls i and j were in flight together: neither had returned when the other
\* was scheduled
Concurrent(i, j) == i \notin calls[j].before /\ j \notin calls[i].before

Accepting == {i \in Done : calls[i].result}
AcceptedIds == {calls[i].challenge_id : i \in Accepting}


\* ----------------------------------------------------------------- claims
\* the calls for challenge c that present signature sig
Batch(c, sig) ==
    {i \in Invoked : calls[i].challenge_id = c /\ calls[i].sig = sig}

\* C1: when two or more verify_payment calls for one challenge, all with the
\* same transaction that satisfies it, were in flight together and have all
\* returned, having found the challenge unexpired and the ledger answering,
\* exactly one of them returned True and every other one returned False for
\* not finding the challenge.
C1_ExactlyOneOfConcurrentVerifiesAccepts ==
    \A c \in DOMAIN created :
      \A sig \in {calls[i].sig : i \in Invoked} :
        LET B == Batch(c, sig) IN
        ( /\ Cardinality(B) >= 2
          /\ B \subseteq Done
          /\ \A i \in B : \A j \in B : i # j => Concurrent(i, j)
          /\ \A i \in Invoked : calls[i].challenge_id = c => i \in B
          /\ Satisfies(Ledger(sig), created[c])
          /\ \A i \in B : calls[i].reason \notin {"expired", "rpc_error"} )
        => /\ Cardinality({i \in B : calls[i].result}) = 1
           /\ \A i \in B : ~calls[i].result => calls[i].reason = "not_found"

\* C1 witness: two concurrent calls with the same token payment, one accepted
\* and the other turned down for not finding the challenge
C1_Witness ==
    \E i \in Done : \E j \in Done :
        /\ i # j /\ Concurrent(i, j)
        /\ calls[i].challenge_id = calls[j].challenge_id
        /\ calls[i].sig = "u20" /\ calls[j].sig = "u20"
        /\ created[calls[i].challenge_id].currency = "USDC"
        /\ calls[i].result
        /\ ~calls[j].result /\ calls[j].reason = "not_found"

\* C2: verify_payment returns True at most once for a challenge id; once it
\* has, the challenge is not in pending_payments, and every verify_payment
\* for that id that returns afterwards returns False for not finding the
\* challenge, whatever the signature.
C2_AcceptedAtMostOnce ==
    /\ [](\A c \in AcceptedIds :
            /\ Cardinality({i \in Accepting : calls[i].challenge_id = c}) = 1
            /\ c \notin DOMAIN pending_payments)
    /\ [][\A i \in CallIds :
            (Returns(i) /\ calls[i].challenge_id \in AcceptedIds)
            => ~calls'[i].result /\ calls'[i].reason = "not_found"]_vars

\* C2 witness: a call scheduled after an accepting call returned, for the same
\* challenge and with another signature, was turned down as not found
C2_Witness ==
    \E i \in Accepting : \E j \in Done :
        /\ i \in calls[j].before
        /\ calls[j].challenge_id = calls[i].challenge_id
        /\ calls[j].sig # calls[i].sig
        /\ ~calls[j].result /\ calls[j].reason = "not_found"
        /\ calls[i].challenge_id \notin DOMAIN pending_payments

\* C3 (as claimed): a verify_payment call on a pending, unexpired challenge
\* whose transaction moved less than 95% of the amount to the recipient
\* returns False, and one whose transaction satisfies the challenge, made
\* after such a rejection and with the ledger answering, returns True.
C3_UnderpaidRejectsThenPaidAccepts ==
    [][\A i \in CallIds :
        LET c == calls[i].challenge_id
            tx == Ledger(calls[i].sig)
        IN  (Returns(i) /\ c \in DOMAIN pending_payments
                /\ ~IsExpired(pending_payments[c], now)
                /\ calls'[i].reason \notin {"rpc_error", "bad_signature"})
            => /\ ~Satisfies(tx, pending_payments[c]) => ~calls'[i].result
               /\ ( /\ Satisfies(tx, pending_payments[c])
                    /\ \E j \in Done : /\ calls[j].challenge_id = c
                                       /\ ~calls[j].result )
                  => calls'[i].result]_vars

\* C4: a verify_payment call that runs when now > expires_at of its challenge
\* never returns True, whatever its transaction, and returns False as expired
\* when it finds the challenge still pending.
C4_ExpiredAlwaysRejected ==
    [][\A i \in CallIds :
        LET c == calls[i].challenge_id IN
        (Returns(i) /\ c \in DOMAIN created /\ now > created[c].expires_at)
        => /\ ~calls'[i].result
           /\ c \in DOMAIN pending_payments
                => /\ calls'[i].reason = "expired"
                   /\ c \notin DOMAIN pending_payments']_vars

\* C4 witness: a call that presented a transaction satisfying its challenge
\* was turned down as expired
C4_Witness ==
    \E i \in Done :
        /\ calls[i].reason = "expired" /\ ~calls[i].result
        /\ Satisfies(Ledger(calls[i].sig), created[calls[i].challenge_id])
        /\ now > created[calls[i].challenge_id].expires_at

\* C5 (as claimed): verify_payment returns True for a USDC challenge only when
\* the recipient's token account for the challenge's mint gained at least 95%
\* of amount_tokens in the transaction.
C5_UsdcAcceptsOnlyRecipientAccount ==
    \A i \in Accepting :
        created[calls[i].challenge_id].currency = "USDC"
        => UsdcPaysRecipient(Ledger(calls[i].sig), created[calls[i].challenge_id])

\* 0.5 SOL, in half lamports, and the lamports it asks for
HalfSol == 1000000000
HalfSolLamports == 500000000

\* C6: for a pending, unexpired SOL challenge and a found, error-free
\* transaction, verify_payment returns True exactly when the recipient is in
\* the transaction's accounts and gained at least 95% of amount_lamports; for
\* amount 0.5 (500,000,000 lamports) a gain of 500,000,000 or 480,000,000 is
\* accepted and one of 400,000,000 is not.
C6_SolAcceptsIffRecipientGains95Percent ==
    [][\A i \in CallIds :
        LET c == calls[i].challenge_id
            tx == Ledger(calls[i].sig)
        IN  (Returns(i) /\ c \in DOMAIN pending_payments
                /\ pending_payments[c].currency = "SOL"
                /\ ~(now > pending_payments[c].expires_at)
                /\ Confirmed(tx))
            => /\ calls'[i].result <=> SolPaysRecipient(tx, pending_payments[c])
               /\ pending_payments[c].amount = HalfSol
                    => /\ pending_payments[c].amount_lamports = HalfSolLamports
                       /\ calls[i].sig \in {"s500M", "s480M"} => calls'[i].result
                       /\ calls[i].sig = "s400M" => ~calls'[i].result]_vars

\* C6 witness: a gain of 480,000,000 lamports accepted for 0.5 SOL
C6_Witness ==
    \E i \in Accepting :
        /\ calls[i].sig = "s480M"
        /\ created[calls[i].challenge_id].amount_lamports = HalfSolLamports

\* C7: a verify_payment call that returns False for any reason but expiry
\* leaves pending_payments as it was.
C7_RejectionKeepsPending ==
    [][\A i \in CallIds :
        (Returns(i) /\ ~calls'[i].result /\ calls'[i].reason # "expired")
        => pending_payments' = pending_payments]_vars

\* C7 witness: a call failed on the ledger fetch and its challenge is pending
C7_Witness ==
    \E i \in Done :
        /\ calls[i].reason = "rpc_error"
        /\ calls[i].challenge_id \in DOMAIN pending_payments

\* the reasons that settle a verification for good
Definitive ==
    {"tx_not_found", "tx_failed", "recipient_absent", "insufficient",
     "no_token_match", "no_token_data"}

\* C8 (as claimed): a verify_payment call that failed on the ledger fetch and
\* one that was turned down for good never return the same value.
C8_TransientDistinctFromReject ==
    \A i \in Done : \A j \in Done :
        (calls[i].reason = "rpc_error" /\ calls[j].reason \in Definitive)
        => calls[i].result # calls[j].result

\* C9 (as claimed): every challenge ever stored has amount > 0, a smallest-unit
\* amount > 0 and expires_at > timestamp.
C9_StoredChallengesArePositive ==
    \A c \in DOMAIN created :
        /\ created[c].amount > 0
        /\ (IF created[c].currency = "USDC" THEN created[c].amount_tokens
            ELSE created[c].amount_lamports) > 0
        /\ created[c].expires_at > created[c].timestamp

\* the attestation memo that verify_attestation reads from a transaction: the
\* first instruction that carries a whole attestation document
Record(id) ==
    LET instructions == chain[id].instructions
        hits == {k \in DOMAIN instructions :
                    instructions[k].kind = "attestation" /\ instructions[k].intact}
    IN  instructions[CHOOSE k \in hits : \A j \in hits : k <= j]

\* the last verify_attestation call found the transaction, which succeeded,
\* and decoded an attestation from it
Decoded ==
    /\ verification.called
    /\ verification.answer = "ok"
    /\ verification.attestation_id \in 1..verification.ledger_size
    /\ ~chain[verification.attestation_id].err
    /\ \E k \in DOMAIN chain[verification.attestation_id].instructions :
          LET ix == chain[verification.attestation_id].instructions[k]
          IN  ix.kind = "attestation" /\ ix.intact
    /\ Record(verification.attestation_id).expires_at # NotIso

\* C10: verify_attestation returns is_valid = issuer_verified and not
\* is_expired and schema_valid, where is_expired holds exactly when the record
\* carries an expires_at and the time of the call is past it; an attestation
\* past its expiry is reported expired and not valid even when issuer and
\* schema check out; a record that is not found or cannot be decoded is
\* reported not valid.
C10_ValidIsIssuerAndNotExpiredAndSchema ==
    verification.called =>
        LET v == verification.result
        IN  IF Decoded
            THEN LET rec == Record(verification.attestation_id)
                     past == rec.expires_at # None
                             /\ verification.at > rec.expires_at[1]
                 IN  /\ v.is_expired = past
                     /\ v.issuer_verified = (rec.issuer = verification.issuer_pubkey)
                     /\ v.schema_valid = (rec.schema \in Schemas)
                     /\ v.is_valid = (v.issuer_verified /\ ~v.is_expired /\ v.schema_valid)
                     /\ (past => v.is_expired /\ ~v.is_valid)
            ELSE v.is_valid = FALSE

\* an attestation of this service, verified after its expiry by the authority
\* that issued it: expired, and not valid although issuer and schema check out
C10_Witness ==
    /\ Decoded
    /\ issue.status = "returned"
    /\ verification.attestation_id = issue.attestation_id
    /\ issue.expires_at # None
    /\ verification.at > issue.expires_at[1]
    /\ verification.result.issuer_verified
    /\ verification.result.schema_valid
    /\ verification.result.is_expired
    /\ ~verification.result.is_valid

\* ---------------------------------------------- attestations, issued
\* payloads around the size limit: with the 18-character schema name and no
\* expiry the envelope takes 255 characters, so 245 characters of data fill
\* the memo exactly and 246 are one too many
EdgeData == Payload("edge", 245, 243, 0)
OverData == Payload("over", 246, 244, 0)

TripData == {SmallData, EdgeData, OverData}
TripExpiries == {None, Some(ExpiryDays)}
Faults == {"none", "unsent", "sent", "failed"}

\* records of every size around the limit, written and read back
NextTrip ==
    SasNext({"dataset_quality_v1", "dataset_usage_receipt_v1"},
            TripData, TripExpiries, {"none"}, MaxAttestations)
SpecTrip == Init /\ [][NextTrip]_vars

\* every way a create_attestation call fails
NextFaulty ==
    SasNext({"dataset_quality_v1", "bogus_v1"}, {SmallData}, {None}, Faults,
            MaxAttestations)
SpecFaulty == Init /\ [][NextFaulty]_vars

\* the size limit of a serialized record, in characters
SizeLimit == 500

\* the last verify_attestation call was for the attestation the last
\* create_attestation call returned, and the ledger handed the transaction
\* over with its memo readable
VerifiedTheIssued ==
    /\ issue.status = "returned"
    /\ verification.called
    /\ verification.answer = "ok"
    /\ verification.attestation_id = issue.attestation_id
    /\ issue.attestation_id <= verification.ledger_size

UnknownNames == {"bogus_v1"}

\* a create_attestation call with one of the given schema names
CreateWith(schemas) ==
    \E sc \in schemas, da \in TripData, ex \in TripExpiries, f \in Faults :
        create_attestation(sc, "S1", da, ex, f, MaxAttestations)

\* C12: create_attestation with a schema name that is not one of the five
\* registered fails with the unknown-schema error and writes nothing to the
\* ledger: no transaction is sent and no attestation id comes into existence.
C12_UnknownSchemaRaisesAndWritesNothing ==
    [][CreateWith(UnknownNames) =>
          /\ issue'.status = "raised"
          /\ issue'.error = "ValueError"
          /\ chain' = chain]_vars

\* an unknown schema was turned down on a ledger that holds nothing
C12_Witness ==
    /\ issue.status = "raised"
    /\ issue.error = "ValueError"
    /\ chain = <<>>

\* C13 (as claimed): a create_attestation call that fails after the ledger
\* took its transaction reports an error different from the one reported by a
\* call that failed before any write was attempted.  Stated on an empty
\* ledger, where the earlier failure cannot have written.
C13_UnknownOutcomeIsDistinguished ==
    [][(/\ CreateWith(Schemas)
        /\ chain = <<>>
        /\ issue.status = "raised"
        /\ issue'.status = "raised"
        /\ chain' # <<>>)
       => issue'.error # issue.error]_vars

\* ---------------------------------------------------------------------
\* The recomputation of a reputation record as a function of the stored
\* reviews and the stored quality score: any table of up to MaxStoredReviews
\* reviews of one dataset version (all but the newest with one rating), any
\* quality score of ScoreQualities.
ScoreWallets ==
    <<"W1", "W2", "W3", "W4", "W5", "W6", "W7", "W8", "W9", "W10", "W11", "W12">>
ScoreQualities == {0, 37, 50, 100}

ScoreTable(n, x, y) ==
    [i \in 1..n |->
        [dataset_id |-> "D1", dataset_version |-> "v1",
         reviewer_wallet |-> ScoreWallets[i],
         rating |-> IF i < n THEN x ELSE y,
         usage_receipt_attestation |-> 0, review_attestation_id |-> 0,
         helpful_count |-> 0]]

ScoreTables ==
    {ScoreTable(n, x, y) : n \in 0..MaxStoredReviews, x \in 1..5, y \in 1..5}

InitScore ==
    /\ now = 0
    /\ pending_payments = <<>>
    /\ created = <<>>
    /\ calls = [i \in CallIds |-> IdleCall]
    /\ responses = [i \in CallIds |-> NoResponse]
    /\ chain = <<>>
    /\ authority = "A1"
    /\ issue = [status |-> "none"]
    /\ verification = [called |-> FALSE]
    /\ usage_receipts = {}
    /\ reviews \in ScoreTables
    /\ review_helpful_votes = {}
    /\ \E q \in ScoreQualities :
          reputation = [d \in Datasets |->
                            IF d = "D1"
                            THEN ReputationSummary("D1", "v1", q, "low", "fresh")
                            ELSE NoReputation]
    /\ review_calls = [i \in ReviewCallIds |-> IdleReview]
    /\ ipfs = <<>>

NextScore == UpdateReputation("D1", "v1")
SpecScore == InitScore /\ [][NextScore]_vars

\* the stored user ratings there can be, in hundredths of a star
RatingGrid == 0..500

Recomputed(d) == "combined_score" \in DOMAIN reputation[d]

\* C14: the stored review weight never exceeds 0.4 (40 hundredths), and for
\* the stored quality score and review count every higher average rating
\* gives a combined score that is no lower than the stored one, every lower
\* average rating one that is no higher.
C14_WeightCappedAndScoreMonotone ==
    \A d \in Datasets :
        Recomputed(d) =>
            /\ reputation[d].review_weight <= 40
            /\ \A r \in RatingGrid :
                 \A c \in CombinedScores(reputation[d].quality_score, r,
                                         ReviewWeight(reputation[d].total_reviews)) :
                    /\ r > reputation[d].user_rating
                          => c >= reputation[d].combined_score
                    /\ r < reputation[d].user_rating
                          => c <= reputation[d].combined_score

\* more than ten reviews, so that the cap has cut the weight, and ratings
\* that moved the combined score away from the quality score
C14_Witness ==
    /\ Recomputed("D1")
    /\ reputation["D1"].total_reviews > 10
    /\ reputation["D1"].review_weight = 40
    /\ reputation["D1"].combined_score > reputation["D1"].quality_score

\* ---------------------------------------------------------------------
\* Reviews and QA passes: the handlers, their inputs drawn from the given sets
QAReport(missing, duplicates, issues, risk_level, freshness) ==
    [missing |-> missing, duplicates |-> duplicates, issues |-> issues,
     risk_level |-> risk_level, freshness |-> freshness]

PerfectReport == QAReport(0, 0, 0, "low", "fresh")
PoorReport == QAReport(100, 50, 5, "high", "stale")

\* the requests to POST /reputation/usage-receipt
ReceiptSteps(wallets, datasets, versions, faults, max_ledger) ==
    \E w \in wallets, d \in datasets, v \in versions, f \in faults :
        create_usage_receipt(w, d, v, f, max_ledger)

\* the create_review calls: their start and their completion
ReviewSteps(wallets, datasets, versions, ratings, receipts, faults, max_calls, max_ledger) ==
    \/ \E w \in wallets, d \in datasets, v \in versions, r \in ratings,
          a \in receipts :
           CreateReviewBegin(w, d, v, r, a, max_calls)
    \/ \E i \in ReviewCallIds, f \in faults : CreateReviewFinish(i, f, max_ledger)

\* the QA passes
QASteps(datasets, versions, qas, faults, max_ledger) ==
    \E d \in datasets, v \in versions, qa \in qas, f \in faults :
        process_dataset_reputation(d, v, qa, f, max_ledger)

\* the helpful votes, for the stored reviews and for a review id that is none
VoteSteps(wallets) ==
    \E id \in 1..(Len(reviews) + 1), w \in wallets : mark_review_helpful(id, w)

\* QA passes on their own, reports around the limits of the badges
BadgeReports ==
    {QAReport(m, d, i, r, f) :
        m \in {0, 10, 100}, d \in {0, 25}, i \in {0, 4, 5},
        r \in {"low", "high"}, f \in {"fresh", "stale"}}
NextBadges ==
    QASteps({"D1"}, {"v1"}, BadgeReports, {"none", "qa", "quality", "freshness"},
            2 * MaxPasses)
SpecBadges == Init /\ [][NextBadges]_vars

\* reviews of one dataset version by two wallets, between QA passes
NextReview ==
    \/ QASteps({"D1"}, {"v1"}, {PerfectReport, PoorReport}, {"none"}, MaxLedger)
    \/ ReceiptSteps(Wallets, {"D1"}, {"v1"}, {"none"}, MaxLedger)
    \/ ReviewSteps(Wallets, {"D1"}, {"v1"}, {1, 5}, {0}, {"none"},
                   MaxReviewCalls, MaxLedger)
SpecReview == Init /\ [][NextReview]_vars

\* C15: after any sequence of QA passes and review creations, a stored
\* reputation record that carries a combined score has that score between 0
\* and 100 and its user rating between 0 and 5 stars (500 hundredths).
C15_StoredScoresInRange ==
    \A d \in Datasets :
        Recomputed(d) =>
            /\ reputation[d].combined_score \in 0..100
            /\ reputation[d].user_rating \in 0..500

\* a perfect quality score combined with a five-star review: the upper end
C15_Witness ==
    /\ Recomputed("D1")
    /\ reputation["D1"].total_reviews >= 1
    /\ reputation["D1"].quality_score = 100
    /\ reputation["D1"].user_rating = 500
    /\ reputation["D1"].combined_score = 100

\* the badges the claim names, as the code stores them
Excellent == Badge("quality", "excellent")
Good == Badge("quality", "good")
PiiSafe == Badge("pii_safe", "safe")
RecentlyChecked == Badge("freshness", "fresh")
OnChainVerified == Badge("verified", "on_chain")
BadgeOrder == <<Excellent, Good, PiiSafe, RecentlyChecked, OnChainVerified>>

\* whether the claim awards the badge to a record
Awarded(badge, rec) ==
    CASE badge = Excellent -> rec.quality_score >= 90
      [] badge = Good -> rec.quality_score >= 75 /\ rec.quality_score < 90
      [] badge = PiiSafe -> rec.pii_risk = "low"
      [] badge = RecentlyChecked -> rec.freshness = "fresh"
      [] OTHER -> TRUE

BadgesOf(rec) ==
    LET Test(b) == Awarded(b, rec) IN SelectSeq(BadgeOrder, Test)

\* C16: the badges stored by a QA pass are, in this order, 'excellent' for a
\* score of 90 or more, otherwise 'good' for a score of 75 or more, 'pii-safe'
\* iff the PII risk is low, 'recently-checked' iff the freshness status is
\* fresh, and 'on-chain-verified' last; for score 92, low risk and fresh data
\* they are the four badges without 'good'.
C16_BadgesInOrder ==
    \A d \in Datasets :
        reputation[d].stored =>
            /\ reputation[d].badges = BadgesOf(reputation[d])
            /\ (/\ reputation[d].quality_score = 92
                /\ reputation[d].pii_risk = "low"
                /\ reputation[d].freshness = "fresh")
               => reputation[d].badges =
                     <<Excellent, PiiSafe, RecentlyChecked, OnChainVerified>>

\* the example of the claim
C16_Witness ==
    /\ reputation["D1"].stored
    /\ reputation["D1"].quality_score = 92
    /\ reputation["D1"].pii_risk = "low"
    /\ reputation["D1"].freshness = "fresh"
    /\ Len(reputation["D1"].badges) = 4

\* usage receipts and reviews of two wallets for two datasets in two versions
ReviewRating == 5
NextEligible ==
    \/ ReceiptSteps(Wallets, Datasets, Versions, {"none"}, MaxAttestations + 1)
    \/ ReviewSteps(Wallets, Datasets, Versions, {ReviewRating}, {0}, {"none"},
                   MaxReviewCalls, MaxAttestations + 1)
SpecEligible == Init /\ [][NextEligible]_vars

HasReceipt(w, d, v) ==
    \E r \in usage_receipts :
        r.reviewer_wallet = w /\ r.dataset_id = d /\ r.dataset_version = v

HasReview(w, d, v) ==
    \E i \in DOMAIN reviews :
        /\ reviews[i].reviewer_wallet = w
        /\ reviews[i].dataset_id = d
        /\ reviews[i].dataset_version = v

\* the create_review call that starts in this step
Starting == Cardinality(StartedReviews) + 1

\* a create_review call for (w, d, v) starts
Requests(w, d, v) ==
    CreateReviewBegin(w, d, v, ReviewRating, 0, MaxReviewCalls)

\* C17: a stored review, and a call that got past the checks, has a usage
\* receipt recorded for exactly its wallet, dataset and version; a call for a
\* wallet without such a receipt ends rejected; a call for a wallet that
\* already has a review of that dataset version ends with the
\* already-reviewed error and the reviews stay as they are.
C17_ReviewNeedsReceiptAndIsTheOnlyOne ==
    /\ [](/\ \A i \in DOMAIN reviews :
                HasReceipt(reviews[i].reviewer_wallet, reviews[i].dataset_id,
                           reviews[i].dataset_version)
          /\ \A i \in ReviewCallIds :
                review_calls[i].pc = "awaiting" =>
                    HasReceipt(review_calls[i].reviewer_wallet,
                               review_calls[i].dataset_id,
                               review_calls[i].dataset_version))
    /\ [][\A w \in Wallets, d \in Datasets, v \in Versions :
            Requests(w, d, v) =>
                /\ ~HasReceipt(w, d, v) =>
                      /\ review_calls'[Starting].pc = "done"
                      /\ review_calls'[Starting].error = "must purchase"
                      /\ reviews' = reviews
                /\ HasReview(w, d, v) =>
                      /\ review_calls'[Starting].pc = "done"
                      /\ review_calls'[Starting].error = "already reviewed"
                      /\ reviews' = reviews]_vars

\* a wallet reviewed a dataset version and its second request was turned down
C17_Witness ==
    \E i, j \in ReviewCallIds :
        /\ review_calls[i].error = "stored"
        /\ review_calls[j].error = "already reviewed"
        /\ review_calls[j].reviewer_wallet = review_calls[i].reviewer_wallet
        /\ review_calls[j].dataset_id = review_calls[i].dataset_id
        /\ review_calls[j].dataset_version = review_calls[i].dataset_version
        /\ Len(reviews) = 1

\* payments and the requests for a usage receipt.  confirm_payment, after an
\* accepted verification, reads payment.payer_wallet, a field its request
\* model does not have: the attribute error is caught and logged before
\* create_usage_receipt is called, so that handler adds no step of its own.
NextReceipts ==
    \/ PayNext({40}, {"SOL"}, {"s20", "s18"}, {FALSE}, MaxProbes)
    \/ ReceiptSteps({"W1"}, {"D1"}, Versions, {"none", "unsent"},
                    MaxAttestations + 1)
SpecReceipts == Init /\ [][NextReceipts]_vars

\* the usage-receipt attestations on the ledger
ReceiptsOnLedger ==
    {id \in DOMAIN chain :
        \E k \in DOMAIN chain[id].instructions :
            /\ chain[id].instructions[k].kind = "attestation"
            /\ chain[id].instructions[k].schema = "dataset_usage_receipt_v1"}

AcceptedPayments == {i \in Done : calls[i].result}

\* C18: a usage receipt, recorded or on the ledger, exists only after a
\* verify_payment call has accepted a payment.
C18_ReceiptOnlyAfterAcceptedPayment ==
    (usage_receipts # {} \/ ReceiptsOnLedger # {}) => AcceptedPayments # {}

\* C19: a stored reputation record of a dataset that has stored reviews of
\* the record's version carries their contribution: it has the review
\* statistics and a combined score, and its total_reviews is their number.
C19_RecordReflectsStoredReviews ==
    \A d \in Datasets :
        (/\ reputation[d].stored
         /\ count_reviews_for_dataset(reviews, d, reputation[d].dataset_version) > 0)
        => /\ Recomputed(d)
           /\ reputation[d].total_reviews =
                 count_reviews_for_dataset(reviews, d, reputation[d].dataset_version)

\* reviews of one dataset version by two wallets, and their helpful votes
NextVotes ==
    \/ ReceiptSteps(Wallets, {"D1"}, {"v1"}, {"none"}, MaxLedger)
    \/ ReviewSteps(Wallets, {"D1"}, {"v1"}, {ReviewRating}, {0}, {"none"},
                   MaxReviewCalls, MaxLedger)
    \/ VoteSteps(Wallets)
SpecVotes == Init /\ [][NextVotes]_vars

VotesFor(review_id) == {v \in review_helpful_votes : v[1] = review_id}

\* C20: a review's helpful_count is the number of helpful-vote records for
\* it, every vote record is for a stored review, and a vote by a wallet that
\* has already voted for the review leaves the votes and the counts as they
\* are.
C20_HelpfulCountIsTheNumberOfVotes ==
    /\ [](/\ \A i \in DOMAIN reviews :
                reviews[i].helpful_count = Cardinality(VotesFor(i))
          /\ \A v \in review_helpful_votes : v[1] \in DOMAIN reviews)
    /\ [][\A id \in DOMAIN reviews, w \in Wallets :
            (mark_review_helpful(id, w) /\ <<id, w>> \in review_helpful_votes)
                => /\ review_helpful_votes' = review_helpful_votes
                   /\ reviews' = reviews]_vars

\* two wallets have voted for one review
C20_Witness ==
    \E i \in DOMAIN reviews :
        /\ reviews[i].helpful_count = 2
        /\ Cardinality(VotesFor(i)) = 2

\* the stored reviews of a wallet for a dataset version
ReviewsBy(w, d, v) == get_review_by_wallet_and_dataset(reviews, w, d, v)

\* C21: at most one review is stored per reviewer wallet, dataset id and
\* dataset version, whatever the order in which the steps of concurrent
\* create_review calls are taken.
C21_AtMostOneReviewPerWalletAndVersion ==
    \A w \in Wallets, d \in Datasets, v \in Versions :
        Cardinality(ReviewsBy(w, d, v)) <= 1

\* reviews that cite an attestation id: the requests name any transaction
\* of the ledger, a usage receipt of either wallet or a review attestation
CitedIds == 1..3
NextCited ==
    \/ ReceiptSteps(Wallets, {"D1"}, Versions, {"none"}, Cardinality(CitedIds))
    \/ ReviewSteps(Wallets, {"D1"}, Versions, {ReviewRating}, CitedIds, {"none"},
                   MaxReviewCalls, Cardinality(CitedIds))
SpecCited == Init /\ [][NextCited]_vars

\* the transaction `id` of the ledger carries a usage-receipt attestation
\* issued to wallet w for version v of dataset d
IsReceiptOf(id, w, d, v) ==
    /\ id \in ReceiptsOnLedger
    /\ \E k \in DOMAIN chain[id].instructions :
          /\ chain[id].instructions[k].kind = "attestation"
          /\ chain[id].instructions[k].subject = w
          /\ chain[id].instructions[k].data.value = <<"usage_receipt", w, d, v>>

\* C22: the usage_receipt_attestation of every stored review is the id of a
\* usage-receipt attestation issued to the review's wallet for the review's
\* dataset and version.
C22_ReviewCitesOwnReceipt ==
    \A i \in DOMAIN reviews :
        IsReceiptOf(reviews[i].usage_receipt_attestation,
                    reviews[i].reviewer_wallet, reviews[i].dataset_id,
                    reviews[i].dataset_version)

\* the record create_payment_request made and stored for challenge c
AsCreated(c) ==
    create_payment_request(c, created[c].amount, created[c].recipient,
                           created[c].currency, created[c].timestamp)

\* C23: a challenge in pending_payments is the record create_payment_request
\* stored for it, field for field: nothing was changed in it, added to it or
\* deleted from it since.
C23_StoredChallengeIsAsCreated ==
    \A c \in DOMAIN pending_payments : pending_payments[c] = AsCreated(c)

\* the payment protocol with the scheduling of the event loop: a
\* verify_payment call that has been scheduled runs, and time passes; that a
\* client sends a request is not assumed
SpecExpiry ==
    /\ Init /\ [][NextPaid]_vars
    /\ WF_vars(\E i \in CallIds, f \in BOOLEAN : RunVerify(i, f))
    /\ WF_vars(\E d \in TickSteps : Tick(d, MaxTime))

\* C24: a challenge whose expires_at has passed is eventually removed from
\* pending_payments, whether or not verify_payment is called for its id.
C24_ExpiredEventuallyRemoved ==
    \A c \in 1..MaxChallenges :
        (c \in DOMAIN pending_payments /\ IsExpired(pending_payments[c], now))
            ~> (c \notin DOMAIN pending_payments)

\* the errors with which create_review turns a request down
Rejections == {"must purchase", "already reviewed"}

\* the review attestations on the ledger
ReviewsOnLedger ==
    {id \in DOMAIN chain :
        \E k \in DOMAIN chain[id].instructions :
            /\ chain[id].instructions[k].kind = "attestation"
            /\ chain[id].instructions[k].schema = "dataset_review_v1"}

\* C25: the step in which a create_review call is turned down (no usage
\* receipt, or already reviewed) leaves the uploaded documents, the ledger,
\* the stored reviews and the reputation records as they are, and a call
\* that was turned down takes no further step.
C25_RejectedReviewChangesNothing ==
    /\ [][\A i \in ReviewCallIds :
            (review_calls'[i] # review_calls[i]
             /\ review_calls'[i].error \in Rejections)
                => /\ ipfs' = ipfs
                   /\ chain' = chain
                   /\ reviews' = reviews
                   /\ reputation' = reputation]_vars
    /\ [][\A i \in ReviewCallIds :
            review_calls[i].error \in Rejections
                => review_calls'[i] = review_calls[i]]_vars

\* after a QA pass a wallet reviewed the dataset and its second request was
\* turned down: one review document, one review attestation, one row, and
\* the record counts one review
C25_Witness ==
    /\ \E i, j \in ReviewCallIds :
          /\ review_calls[i].error = "stored"
          /\ review_calls[j].error = "already reviewed"
    /\ Len(reviews) = 1
    /\ Cardinality(ReviewsOnLedger) = 1
    /\ Cardinality({k \in DOMAIN ipfs : ipfs[k].kind = "review"}) = 1
    /\ Recomputed("D1")
    /\ reputation["D1"].total_reviews = 1

\* a dataset version with about a page of stored reviews, each by a wallet
\* of its own: the oldest rated y, the others x
PageSizes == {PageLimit - 1, PageLimit, PageLimit + 1}

PageTable(n, x, y) ==
    [i \in 1..n |->
        [dataset_id |-> "D1", dataset_version |-> "v1",
         reviewer_wallet |-> "W" \o ToString(i),
         rating |-> IF i = 1 THEN y ELSE x,
         usage_receipt_attestation |-> 0, review_attestation_id |-> 0,
         helpful_count |-> 0]]

InitPage ==
    /\ now = 0
    /\ pending_payments = <<>>
    /\ created = <<>>
    /\ calls = [i \in CallIds |-> IdleCall]
    /\ responses = [i \in CallIds |-> NoResponse]
    /\ chain = <<>>
    /\ authority = "A1"
    /\ issue = [status |-> "none"]
    /\ verification = [called |-> FALSE]
    /\ usage_receipts = {}
    /\ reviews \in {PageTable(n, x, y) : n \in PageSizes, x \in 1..5, y \in 1..5}
    /\ review_helpful_votes = {}
    /\ \E q \in ScoreQualities :
          reputation = [d \in Datasets |->
                            IF d = "D1"
                            THEN ReputationSummary("D1", "v1", q, "low", "fresh")
                            ELSE NoReputation]
    /\ review_calls = [i \in ReviewCallIds |-> IdleReview]
    /\ ipfs = <<>>

SpecPage == InitPage /\ [][NextScore]_vars

\* the number of reviews the histogram of a record counts
HistogramTotal(rec) ==
    rec.rating_distribution[1] + rec.rating_distribution[2]
    + rec.rating_distribution[3] + rec.rating_distribution[4]
    + rec.rating_distribution[5]

\* C26: in a recomputed record the five histogram counts sum to
\* total_reviews, the number of stored reviews of the dataset version.
C26_HistogramCountsEveryReview ==
    \A d \in Datasets :
        Recomputed(d) =>
            /\ reputation[d].total_reviews =
                  count_reviews_for_dataset(reviews, d, reputation[d].dataset_version)
            /\ HistogramTotal(reputation[d]) = reputation[d].total_reviews

\* QA passes and reviews of two versions of one dataset
NextVersions ==
    \/ QASteps({"D1"}, Versions, {PerfectReport, PoorReport}, {"none"}, MaxLedger)
    \/ ReceiptSteps({"W1"}, {"D1"}, Versions, {"none"}, MaxLedger)
    \/ ReviewSteps({"W1"}, {"D1"}, Versions, {1, 5}, {0}, {"none", "ipfs"},
                   MaxReviewCalls, MaxLedger)
SpecVersions == Init /\ [][NextVersions]_vars

\* a QA pass for version v of dataset d completes, or a create_review call
\* for it does
ActsOn(d, v) ==
    \/ \E qa \in {PerfectReport, PoorReport} :
           process_dataset_reputation(d, v, qa, "none", MaxLedger)
    \/ \E i \in ReviewCallIds :
           /\ review_calls[i].dataset_id = d
           /\ review_calls[i].dataset_version = v
           /\ CreateReviewFinish(i, "none", MaxLedger)

\* C27: a QA pass or a review creation for one version of a dataset leaves
\* the stored reputation record of another version of that dataset as it is.
C27_OtherVersionUntouched ==
    [][\A d \in Datasets, v \in Versions :
          (/\ ActsOn(d, v)
           /\ reputation[d].stored
           /\ reputation[d].dataset_version # v)
              => reputation'[d] = reputation[d]]_vars

\* C28: an attestation id that create_attestation has returned, whether its
\* record was cut to the size limit or not, is found by verify_attestation
\* and decoded as an attestation record whenever the ledger hands the
\* transaction over: the answer carries the record, never the
\* no-attestation-data error.
C28_ReturnedAttestationIsDecoded ==
    VerifiedTheIssued =>
        /\ "attestation_data" \in DOMAIN verification.result
        /\ "error" \notin DOMAIN verification.result

\* one more priced query than a behaviour otherwise makes, each of the same
\* cost and recipient, and one transfer that pays that cost once
NextReplay ==
    \/ \E d \in TickSteps : Tick(d, MaxTime)
    \/ PaymentRequired(40, "SOL", MaxChallenges + 1)
    \/ \E c \in DOMAIN created, s \in {"s20", "s18"} : InvokeVerify(c, s, MaxCalls)
    \/ \E i \in CallIds : RunVerify(i, FALSE)
SpecReplay == Init /\ [][NextReplay]_vars

\* C29: the verify_payment calls that accepted one and the same transaction
\* id were all for the same challenge; with each challenge accepted at most
\* once, a transaction id is accepted at most once.
C29_TransactionAcceptedForOneChallenge ==
    \A i, j \in AcceptedPayments :
        calls[i].sig = calls[j].sig => calls[i].challenge_id = calls[j].challenge_id

\* priced queries and the confirm_payment calls for them, next to requests
\* for a usage receipt
NextConfirm ==
    \/ \E d \in TickSteps : Tick(d, MaxTime)
    \/ execute_query_tool(40, "SOL")
    \/ \E c \in DOMAIN created, s \in {"s20", "s18"} : InvokeVerify(c, s, MaxCalls)
    \/ \E i \in CallIds, f \in BOOLEAN, q \in BOOLEAN : confirm_payment(i, f, q)
    \/ ReceiptSteps({"W1"}, {"D1"}, {"v1"}, {"none"}, MaxAttestations)
SpecConfirm == Init /\ [][NextConfirm]_vars

\* the confirm_payment calls that ran the query stored with challenge c
Releases(c) ==
    {i \in CallIds : calls[i].challenge_id = c /\ responses[i].executed # ""}

\* C30: a confirm_payment call runs a query only if its verify_payment
\* accepted, and then the query stored with its challenge; it returns rows
\* only then; a call answered 404 or 402 has run no query and returned no
\* rows, and the step that answers so leaves the recorded usage receipts and
\* the ledger as they are; the query of a challenge is run by at most one
\* call.
C30_DataOnlyInAcceptingCall ==
    /\ [](/\ \A i \in CallIds :
                /\ responses[i].executed # "" =>
                      /\ calls[i].result
                      /\ responses[i].executed =
                            created[calls[i].challenge_id].sql_query
                /\ responses[i].rows =>
                      calls[i].result /\ responses[i].status = 200
                /\ responses[i].status \in {404, 402} =>
                      responses[i].executed = "" /\ ~responses[i].rows
          /\ \A c \in DOMAIN created : Cardinality(Releases(c)) <= 1)
    /\ [][\A i \in CallIds :
            (responses'[i] # responses[i] /\ responses'[i].status \in {404, 402})
                => usage_receipts' = usage_receipts /\ chain' = chain]_vars

\* a challenge was paid and released its rows, and the next call for it,
\* with the same transaction, was answered 404; a usage receipt asked for at
\* the receipt endpoint is on record
C30_Witness ==
    /\ \E i, j \in CallIds :
          /\ responses[i].status = 200
          /\ responses[i].rows
          /\ responses[j].status = 404
          /\ calls[j].challenge_id = calls[i].challenge_id
          /\ calls[j].sig = calls[i].sig
    /\ usage_receipts # {}

====
